---- MODULE Spec2Model ----
(***************************************************************************)
(* GrpcService (src/services/grpc/grpcService.js): the lifecycle of one    *)
(* lnd gRPC service object.  A javascript-state-machine with the states    *)
(* ready and connected, an asynchronous connect pre-hook that builds the   *)
(* client, a delayed subscription task started after each connect, and an  *)
(* asynchronous disconnect pre-hook that cancels every registered stream   *)
(* and waits for the CANCELLED status of each before closing the client.   *)
(*                                                                         *)
(* One step of the model is one run-to-completion piece of JavaScript: a   *)
(* synchronous call by the owner of the object, the continuation of an     *)
(* await, a timer callback, or a stream event with its listeners.          *)
(***************************************************************************)
EXTENDS Integers, Sequences, FiniteSets, TLC

\* Bounds of the model.
MaxSessions == 2       \* connects that may complete
MaxClients == 2        \* clients that may exist at once
MaxStreams == 2        \* streams the subscription hook may open in total

\* The stream names the concrete service may register, in a fixed order.
NameSeq == <<"x", "y">>
Names == {NameSeq[i] : i \in DOMAIN NameSeq}

\* grpc status codes: status.CANCELLED, and status.OK for any other code.
CANCELLED == 1
OK == 0

VARIABLES
  state,          \* fsm.state
  pending,        \* fsm.pending: a transition is in flight
  pc,             \* where the in-flight pre-hook is suspended
  lndConfig,      \* this.lndConfig: [id, type]
  useMacaroon,    \* this.useMacaroon
  service,        \* this.service: 0 is null, else the id of a client
  handles,        \* client id -> "none" | "open" | "ready" | "closed"
  subscriptions,  \* this.subscriptions: name -> stream id, 0 is absent
  streams,        \* stream id -> its name, listeners and events so far
  nstreams,       \* streams opened so far
  waiting,        \* streams whose promise in unsubscribe() is unresolved
  snap,           \* streams unsubscribe() found when the disconnect began
  timers,         \* pending delay(2000) timers, oldest first, by session
  sessions,       \* connects completed so far
  quick,          \* sessions disconnected while their timer was pending
  hookBy,         \* sessions whose delayed task called subscribe()
  hooksNow,       \* subscribe() calls since the latest connect completed
  ev              \* what the step that led here did

fsmVars == <<state, pending, pc>>
cfgVars == <<lndConfig, useMacaroon>>
clientVars == <<service, handles>>
subVars == <<subscriptions, streams, nstreams>>
cancelVars == <<waiting, snap>>
timerVars == <<timers, sessions, quick, hookBy, hooksNow>>

prog == <<fsmVars, cfgVars, clientVars, subVars, cancelVars, timerVars>>
vars == <<prog, ev>>

Event(op, arg, id, res, cnt) ==
  [op |-> op, arg |-> arg, id |-> id, res |-> res, cnt |-> cnt]

NoStream ==
  [name |-> "", endL |-> 0, ended |-> FALSE, cancelReq |-> FALSE,
   cancelled |-> FALSE]

Transitions ==
  { [name |-> "connect", from |-> "ready", to |-> "connected"],
    [name |-> "disconnect", from |-> "connected", to |-> "ready"] }

Init ==
  /\ state = "ready"
  /\ pending = FALSE
  /\ pc = "idle"
  /\ lndConfig \in [id : {"tmp", "main"}, type : {"local", "custom"}]
  /\ useMacaroon = TRUE
  /\ service = 0
  /\ handles = [h \in 1..MaxClients |-> "none"]
  /\ subscriptions = [n \in Names |-> 0]
  /\ streams = [s \in 1..MaxStreams |-> NoStream]
  /\ nstreams = 0
  /\ waiting = {}
  /\ snap = {}
  /\ timers = <<>>
  /\ sessions = 0
  /\ quick = {}
  /\ hookBy = {}
  /\ hooksNow = 0
  /\ ev = Event("none", "", 0, "", 0)

\* The state after construction by a service class that has set its own
\* useMacaroon flag: the constructor's true, or false for a service that uses
\* no macaroon.
InitSettings ==
  /\ state = "ready"
  /\ pending = FALSE
  /\ pc = "idle"
  /\ lndConfig \in [id : {"tmp", "main"}, type : {"local", "custom"}]
  /\ useMacaroon \in BOOLEAN
  /\ service = 0
  /\ handles = [h \in 1..MaxClients |-> "none"]
  /\ subscriptions = [n \in Names |-> 0]
  /\ streams = [s \in 1..MaxStreams |-> NoStream]
  /\ nstreams = 0
  /\ waiting = {}
  /\ snap = {}
  /\ timers = <<>>
  /\ sessions = 0
  /\ quick = {}
  /\ hookBy = {}
  /\ hooksNow = 0
  /\ ev = Event("none", "", 0, "", 0)

----------------------------------------------------------------------------
\* javascript-state-machine

\* seek: the target of transition t in the current state, "none" if the
\* transition table has no entry for it.
seekAnyState(t) ==
  (CHOOSE tr \in Transitions : tr.name = t).to

seek(t) ==
  LET m == {tr \in Transitions : tr.name = t /\ tr.from = state}
  IN  IF m = {} THEN "none" ELSE (CHOOSE tr \in m : TRUE).to

\* fsm.isPending
isPendingNever == FALSE

isPending == pending

\* fsm.is, fsm.can
isAlways(s) == TRUE

is(s) == state = s

can(t) == ~isPending /\ seek(t) # "none"

\* failTransit: the pre-hook's promise rejected at the given step.
failTransit(step) ==
  /\ pending' = FALSE
  /\ pc' = "idle"
  /\ ev' = Event("settled", step, 0, "error", 0)

----------------------------------------------------------------------------
\* Helpers

\* The keys of this.subscriptions.
activeSubKeys(subs) == {n \in Names : subs[n] # 0}

\* delete this.subscriptions[key]
deleteKey(subs, key) == [subs EXCEPT ![key] = 0]

\* _getConnectionSettings
getConnectionSettingsAnyId ==
  [useMacaroon |-> useMacaroon,
   waitForMacaroon |-> lndConfig.type = "local"]

getConnectionSettings ==
  [useMacaroon |-> useMacaroon /\ lndConfig.id # "tmp",
   waitForMacaroon |-> lndConfig.type = "local"]

\* await Promise.all(cancellations): every promise of W is resolved.
allResolvedNoWait(W) == TRUE

allResolved(W) == W = {}

\* The continuation of an await whose promise is already resolved runs as a
\* microtask, before any timer, I/O completion or stream event.
MicrotaskNever == FALSE

MicrotaskReady == pc = "unsub" /\ allResolved(waiting)

----------------------------------------------------------------------------
\* Connect: onBeforeConnect / establishConnection / onAfterConnect

\* onBeforeConnect up to its first await (getLatestProtoVersion).
onBeforeConnect ==
  /\ sessions < MaxSessions
  /\ pc' = "proto"
  /\ UNCHANGED <<state, cfgVars, clientVars, subVars, cancelVars, timerVars>>

\* The identity of the next client object.  A closed client is referenced by
\* nothing but this.service, which the new client replaces, so its id is
\* reused.
freeClients == {h \in 1..MaxClients : handles[h] \in {"none", "closed"}}
newClientId == CHOOSE h \in freeClients : \A g \in freeClients : h <= g

\* this.service = new rpc.lnrpc[serviceName](host, creds), then the
\* readiness probe is awaited.
newClient ==
  /\ freeClients # {}
  /\ service' = newClientId
  /\ handles' = [handles EXCEPT ![newClientId] = "open"]
  /\ pc' = "probe"

\* The proto file was found and loaded.
ProtoLoaded ==
  /\ pc = "proto"
  /\ pc' = "ssl"
  /\ ev' = Event("step", "proto", 0, "ok", 0)
  /\ UNCHANGED <<state, pending, cfgVars, clientVars, subVars, cancelVars,
                 timerVars>>

\* createSslCreds resolved; without macaroons the client is created next.
SslCredsCreated ==
  /\ pc = "ssl"
  /\ ev' = Event("step", "ssl", 0, "ok", 0)
  /\ IF getConnectionSettings.useMacaroon
     THEN /\ pc' = IF getConnectionSettings.waitForMacaroon
                   THEN "waitFile" ELSE "macaroon"
          /\ UNCHANGED clientVars
     ELSE newClient
  /\ UNCHANGED <<state, pending, cfgVars, subVars, cancelVars, timerVars>>

\* waitForFile(macaroon, 20000) resolved.
MacaroonFileFound ==
  /\ pc = "waitFile"
  /\ pc' = "macaroon"
  /\ ev' = Event("step", "waitFile", 0, "ok", 0)
  /\ UNCHANGED <<state, pending, cfgVars, clientVars, subVars, cancelVars,
                 timerVars>>

\* createMacaroonCreds resolved; the client is created.
MacaroonCredsCreated ==
  /\ pc = "macaroon"
  /\ newClient
  /\ ev' = Event("step", "macaroon", 0, "ok", 0)
  /\ UNCHANGED <<state, pending, cfgVars, subVars, cancelVars, timerVars>>

\* A step before the client exists rejected: proto lookup, ssl credentials,
\* the macaroon file wait timing out, macaroon credentials.
PreClientError ==
  /\ pc \in {"proto", "ssl", "waitFile", "macaroon"}
  /\ failTransit(pc)
  /\ UNCHANGED <<state, cfgVars, clientVars, subVars, cancelVars, timerVars>>

\* waitForReady failed or passed its deadline: the catch block closes the
\* client and rethrows.
ProbeErrorNoClose ==
  /\ pc = "probe"
  /\ failTransit("probe")
  /\ UNCHANGED <<state, cfgVars, clientVars, subVars, cancelVars, timerVars>>

ProbeError ==
  /\ pc = "probe"
  /\ handles' = [handles EXCEPT ![service] = "closed"]
  /\ failTransit("probe")
  /\ UNCHANGED <<state, cfgVars, service, subVars, cancelVars, timerVars>>

\* onAfterConnect: subscribeAfterDelay() runs up to its await delay(2000).
onAfterConnectTwice ==
  /\ sessions' = sessions + 1
  /\ timers' = Append(Append(timers, sessions + 1), sessions + 1)
  /\ hooksNow' = 0
  /\ UNCHANGED <<quick, hookBy>>

onAfterConnect ==
  /\ sessions' = sessions + 1
  /\ timers' = Append(timers, sessions + 1)
  /\ hooksNow' = 0
  /\ UNCHANGED <<quick, hookBy>>

\* waitForReady succeeded: doTransit, onAfterConnect, endTransit.
ProbeReady ==
  /\ pc = "probe"
  /\ handles' = [handles EXCEPT ![service] = "ready"]
  /\ state' = "connected"
  /\ onAfterConnect
  /\ pending' = FALSE
  /\ pc' = "idle"
  /\ ev' = Event("settled", "connect", 0, "ok", 0)
  /\ UNCHANGED <<cfgVars, service, subVars, cancelVars>>

----------------------------------------------------------------------------
\* Subscriptions

\* The position of name n among the names of N, in the order of NameSeq.
rank(n, N) ==
  Cardinality({i \in DOMAIN NameSeq :
                 NameSeq[i] \in N /\ \E j \in DOMAIN NameSeq :
                                        NameSeq[j] = n /\ i <= j})

\* subscribe(): the concrete service opens a stream for every name of N and
\* stores it in this.subscriptions, then the base class attaches an 'end'
\* listener to the stream under every key.
subscribe(N) ==
  LET subs == [n \in Names |->
                 IF n \in N THEN nstreams + rank(n, N) ELSE subscriptions[n]]
      opened == {subs[n] : n \in N}
      listened == {subs[n] : n \in activeSubKeys(subs)}
  IN  /\ nstreams + Cardinality(N) <= MaxStreams
      /\ subscriptions' = subs
      /\ nstreams' = nstreams + Cardinality(N)
      /\ streams' = [s \in 1..MaxStreams |->
                       IF s \in opened
                       THEN [NoStream EXCEPT
                               !.name = CHOOSE n \in N : subs[n] = s,
                               !.endL = 1]
                       ELSE IF s \in listened
                       THEN [streams[s] EXCEPT !.endL = @ + 1]
                       ELSE streams[s]]

\* The rest of subscribeAfterDelay, when delay(2000) has elapsed; check is
\* the test made before subscribing.
delayedTask(check) ==
  /\ timers # <<>>
  /\ ~MicrotaskReady
  /\ timers' = Tail(timers)
  /\ IF check
     THEN /\ \E N \in SUBSET Names :
               /\ subscribe(N)
               /\ ev' = Event("timer", "", Head(timers), "hook",
                              Cardinality(N))
          /\ hookBy' = hookBy \cup {Head(timers)}
          /\ hooksNow' = hooksNow + 1
     ELSE /\ ev' = Event("timer", "", Head(timers), "skip", 0)
          /\ UNCHANGED <<subVars, hookBy, hooksNow>>
  /\ UNCHANGED <<fsmVars, cfgVars, clientVars, cancelVars, sessions, quick>>

subscribeAfterDelayUnchecked == delayedTask(TRUE)

subscribeAfterDelay == delayedTask(is("connected"))

\* The 'end' listeners of stream s: each logs and deletes the key it was
\* attached for.
StreamEnd(s) ==
  /\ s \in 1..nstreams
  /\ ~MicrotaskReady
  /\ ~streams[s].ended
  /\ ~streams[s].cancelled
  /\ streams' = [streams EXCEPT ![s].ended = TRUE]
  /\ subscriptions' = IF streams[s].endL > 0
                      THEN deleteKey(subscriptions, streams[s].name)
                      ELSE subscriptions
  /\ ev' = Event("end", streams[s].name, s, "", streams[s].endL)
  /\ UNCHANGED <<fsmVars, cfgVars, clientVars, nstreams, cancelVars,
                 timerVars>>

\* The test of the 'status' listener of _cancelSubscription.
isAnyStatus(code) == TRUE

isCancellation(code) == code = CANCELLED

\* Stream s emits 'status' with the given code while a 'status' listener of
\* _cancelSubscription is attached (without one the event has no effect).
\* The transport reports CANCELLED once, and only for a call whose cancel()
\* was called.  The listeners delete the key and resolve.
StreamStatus(s, code) ==
  /\ s \in 1..nstreams
  /\ ~MicrotaskReady
  /\ ~streams[s].cancelled
  /\ streams[s].cancelReq
  /\ streams' = [streams EXCEPT ![s].cancelled = (code = CANCELLED)]
  /\ IF isCancellation(code) /\ s \in waiting
     THEN /\ subscriptions' = deleteKey(subscriptions, streams[s].name)
          /\ waiting' = waiting \ {s}
          /\ ev' = Event("status", streams[s].name, s, "resolved", code)
     ELSE /\ ev' = Event("status", streams[s].name, s, "ignored", code)
          /\ UNCHANGED <<subscriptions, waiting>>
  /\ UNCHANGED <<fsmVars, cfgVars, clientVars, nstreams, snap, timerVars>>

\* _cancelSubscription(key): call = this.subscriptions[key]; the promise it
\* returns.  With no stream under key call is undefined, call.on throws in
\* the executor and call.cancel() throws in the async function: the promise
\* is rejected.  Otherwise it stays unresolved until the status listener
\* resolves it.
cancelPromise(call) == IF call = 0 THEN "rejected" ELSE "waiting"

\* _cancelSubscription(key) called for a key with no stream.  (For the keys
\* that have one it is called by unsubscribe, its one caller.)
cancelSubscriptionNoEntry(key) ==
  /\ subscriptions[key] = 0
  /\ ev' = Event("cancelOne", "", 0, cancelPromise(subscriptions[key]), 0)
  /\ UNCHANGED prog

----------------------------------------------------------------------------
\* Disconnect: onBeforeDisconnect / unsubscribe

\* unsubscribe() up to await Promise.all: _cancelSubscription for every key.
unsubscribeNoCancel ==
  LET S == {subscriptions[n] : n \in activeSubKeys(subscriptions)}
  IN  /\ streams' = streams
      /\ waiting' = {s \in S : cancelPromise(s) = "waiting"}
      /\ snap' = S

unsubscribe ==
  LET S == {subscriptions[n] : n \in activeSubKeys(subscriptions)}
  IN  /\ streams' = [s \in 1..MaxStreams |->
                       IF s \in S THEN [streams[s] EXCEPT !.cancelReq = TRUE]
                       ELSE streams[s]]
      /\ waiting' = {s \in S : cancelPromise(s) = "waiting"}
      /\ snap' = S

\* onBeforeDisconnect up to its await.
onBeforeDisconnect ==
  /\ unsubscribe
  /\ pc' = "unsub"
  /\ UNCHANGED <<state, cfgVars, clientVars, subscriptions, nstreams,
                 timerVars>>

\* Promise.all resolved: the client is closed, doTransit, endTransit.
DisconnectDone ==
  /\ pc = "unsub"
  /\ allResolved(waiting)
  /\ handles' = IF service # 0
                THEN [handles EXCEPT ![service] = "closed"] ELSE handles
  /\ state' = "ready"
  /\ pending' = FALSE
  /\ pc' = "idle"
  /\ quick' = IF \E i \in DOMAIN timers : timers[i] = sessions
              THEN quick \cup {sessions} ELSE quick
  /\ snap' = {}
  /\ ev' = Event("settled", "disconnect", 0, "ok", Cardinality(snap))
  /\ UNCHANGED <<cfgVars, service, subVars, waiting, timers, sessions,
                 hookBy, hooksNow>>

----------------------------------------------------------------------------
\* The public operations

\* fsm.transit for connect() and disconnect().
transit(t) ==
  IF seek(t) = "none"
  THEN /\ ev' = Event("request", t, 0, "invalid", 0)
       /\ UNCHANGED prog
  ELSE IF isPending
  THEN /\ ev' = Event("request", t, 0, "pending", 0)
       /\ UNCHANGED prog
  ELSE /\ ev' = Event("request", t, 0, "begun", 0)
       /\ pending' = TRUE
       /\ IF t = "connect" THEN onBeforeConnect ELSE onBeforeDisconnect

connect == transit("connect")

disconnect == transit("disconnect")

\* is(state) and can(transition)
isQueryGoto(s) ==
  /\ state' = s
  /\ ev' = Event("is", "", 0, "", 0)
  /\ UNCHANGED <<pending, pc, cfgVars, clientVars, subVars, cancelVars,
                 timerVars>>

isQuery(s) ==
  /\ is(s) \in BOOLEAN
  /\ ev' = Event("is", "", 0, "", 0)
  /\ UNCHANGED prog

canQuery(t) ==
  /\ can(t) \in BOOLEAN
  /\ ev' = Event("can", "", 0, "", 0)
  /\ UNCHANGED prog

Next ==
  \/ connect
  \/ disconnect
  \/ \E s \in {"ready", "connected"} : isQuery(s)
  \/ \E t \in {"connect", "disconnect"} : canQuery(t)
  \/ ProtoLoaded
  \/ SslCredsCreated
  \/ MacaroonFileFound
  \/ MacaroonCredsCreated
  \/ PreClientError
  \/ ProbeError
  \/ ProbeReady
  \/ subscribeAfterDelay
  \/ \E s \in 1..MaxStreams : StreamEnd(s)
  \/ \E s \in 1..MaxStreams, code \in {CANCELLED, OK} : StreamStatus(s, code)
  \/ \E key \in Names : cancelSubscriptionNoEntry(key)
  \/ DisconnectDone

Spec == Init /\ [][Next]_vars

\* The steps that change the service: the calls of the caller that leave it
\* as it is (is, can, _cancelSubscription of a missing key) are left out.
NextFair ==
  \/ connect
  \/ disconnect
  \/ ProtoLoaded
  \/ SslCredsCreated
  \/ MacaroonFileFound
  \/ MacaroonCredsCreated
  \/ PreClientError
  \/ ProbeError
  \/ ProbeReady
  \/ subscribeAfterDelay
  \/ \E s \in 1..MaxStreams : StreamEnd(s)
  \/ \E s \in 1..MaxStreams, code \in {CANCELLED, OK} : StreamStatus(s, code)
  \/ DisconnectDone

\* The service when the transport reports CANCELLED for every call whose
\* cancel() was called, and the event loop runs the continuation of the
\* await of unsubscribe() once its promises are resolved.
SpecFair ==
  /\ Init /\ [][NextFair]_vars
  /\ \A s \in 1..MaxStreams : WF_vars(StreamStatus(s, CANCELLED))
  /\ WF_vars(DisconnectDone)

\* Connecting and disconnecting a service of any configuration and either
\* useMacaroon flag, before any settling delay has elapsed.
NextSettings ==
  \/ connect
  \/ disconnect
  \/ ProtoLoaded
  \/ SslCredsCreated
  \/ MacaroonFileFound
  \/ MacaroonCredsCreated
  \/ PreClientError
  \/ ProbeError
  \/ ProbeReady
  \/ DisconnectDone

SpecSettings == InitSettings /\ [][NextSettings]_vars

----------------------------------------------------------------------------
\* Properties

Registered == activeSubKeys(subscriptions)

\* Session k has been disconnected: a later connect completed, or it is the
\* latest session and the state is back to ready.
Disconnected(k) == k < sessions \/ (k = sessions /\ state = "ready")

\* C1: a connect begins only from ready and a disconnect only from
\* connected; a connect requested in state connected, or a disconnect
\* requested in state ready, fails as an invalid transition and leaves the
\* lifecycle state, the registry, the client and everything else as it was.
C1_InvalidTransitionRejected ==
  [][ev'.op = "request" =>
       /\ ev'.res = "begun" =>
            \/ ev'.arg = "connect" /\ state = "ready" /\ ~pending
            \/ ev'.arg = "disconnect" /\ state = "connected" /\ ~pending
       /\ (\/ ev'.arg = "connect" /\ state = "connected"
           \/ ev'.arg = "disconnect" /\ state = "ready") =>
            ev'.res = "invalid" /\ UNCHANGED prog]_vars

C1_Witness ==
  /\ ev = Event("request", "connect", 0, "invalid", 0)
  /\ state = "connected"
  /\ ~pending
  /\ Registered # {}
  /\ handles[service] = "ready"

\* C2: when the connect pre-hook fails at any step, the state is still
\* ready, no transition is pending, no client is left created-but-unprobed
\* (the client the attempt created is closed), and connect can be requested
\* again.
C2_FailedConnectRetriable ==
  [][(ev'.op = "settled" /\ ev'.res = "error") =>
       /\ state = "ready" /\ state' = "ready"
       /\ ~pending'
       /\ pc = "probe" => handles'[service'] = "closed"
       /\ \A h \in 1..MaxClients : handles'[h] # "open"
       /\ can("connect")']_vars

C2_Witness ==
  /\ ev = Event("settled", "probe", 0, "error", 0)
  /\ state = "ready"
  /\ handles[service] = "closed"
  /\ can("connect")

\* C3: while a transition is in flight every connect or disconnect request
\* is rejected and changes nothing: the in-flight pre-hook stays where it is
\* and nothing is recorded for later.
C3_NoQueueing ==
  [][(pending /\ ev'.op = "request") =>
       /\ ev'.res \in {"invalid", "pending"}
       /\ UNCHANGED prog]_vars

C3_Witness ==
  /\ ev = Event("request", "disconnect", 0, "pending", 0)
  /\ pending
  /\ pc = "unsub"
  /\ waiting # {}

\* C4: during a disconnect the client is closed, and the state becomes
\* ready, only in a step taken when every stream found in the registry at
\* the start of the disconnect has reported CANCELLED; until then the client
\* stays open and the state stays connected.
C4_DisconnectOrdering ==
  [][pc = "unsub" =>
       /\ (handles' # handles \/ state' # state) =>
            /\ \A s \in snap : streams[s].cancelled
            /\ handles'[service] = "closed"
            /\ state' = "ready"
       /\ pc' = "unsub" =>
            /\ handles'[service] = "ready"
            /\ state' = "connected"]_vars

C4_Witness ==
  /\ ev = Event("settled", "disconnect", 0, "ok", 2)
  /\ state = "ready"
  /\ handles[service] = "closed"
  /\ \E s, r \in 1..MaxStreams :
       s # r /\ streams[s].cancelled /\ streams[r].cancelled

\* C5: once the cancellations of a disconnect have all resolved, and in
\* every state that is ready with no transition in flight, the registry has
\* no entry.
C5_RegistryEmptyAfterCancelAll ==
  (\/ pc = "unsub" /\ waiting = {}
   \/ state = "ready" /\ ~pending) => Registered = {}

\* C6 as stated: the delayed task of a session that has been disconnected
\* skips the subscription hook, also when the service is connected again.
C6_SkipsAfterAnyDisconnect ==
  [][(ev'.op = "timer" /\ Disconnected(ev'.id)) => ev'.res = "skip"]_vars

\* C6 amended: the delayed task skips the subscription hook exactly when the
\* state is not connected at the moment its delay elapses, and then leaves
\* the registry alone; the task of a disconnected session that finds the
\* service connected again calls the hook.
C6_SkipsIffNotConnected ==
  [][ev'.op = "timer" =>
       /\ ev'.res = "skip" <=> state # "connected"
       /\ state # "connected" => UNCHANGED <<subVars, hookBy, hooksNow>>
       /\ ev'.res \in {"skip", "hook"}]_vars

C6_Witness ==
  /\ ev.op = "timer"
  /\ ev.res = "skip"
  /\ ev.id \in quick
  /\ state = "ready"

\* C7 as stated: a session disconnected before its settling delay elapsed
\* never has the hook called by its delayed task.
C7_QuickDisconnectNeverSubscribes ==
  \A k \in quick : k \notin hookBy

\* C7 amended: after a connect and a disconnect that completed before the
\* settling delay of that connect elapsed, and as long as no later connect
\* has completed, the delayed task of that connect has not called the hook;
\* for the first connect, no hook was called at all, no stream was ever
\* opened and the registry is empty.
C7_QuickDisconnectNoSubscriptions ==
  \A k \in quick :
    sessions = k =>
      /\ k \notin hookBy
      /\ k = 1 => (hookBy = {} /\ nstreams = 0 /\ Registered = {})

C7_Witness ==
  /\ 1 \in quick
  /\ sessions = 1
  /\ timers = <<>>
  /\ ev = Event("timer", "", 1, "skip", 0)
  /\ nstreams = 0

\* C8: the promise of _cancelSubscription for a registered stream is
\* unresolved, with the entry still registered, right after the cancel
\* request; a status with another code leaves it unresolved and the registry
\* as it was; it is resolved only by a status CANCELLED of that stream,
\* which also removes the entry.
C8_ResolvesOnCancelledOnly ==
  [][/\ (ev'.op = "request" /\ ev'.res = "begun" /\ ev'.arg = "disconnect") =>
          \A n \in Registered :
            /\ subscriptions[n] \in waiting'
            /\ streams'[subscriptions[n]].cancelReq
            /\ subscriptions'[n] = subscriptions[n]
     /\ \A s \in waiting :
          /\ (ev'.op = "status" /\ ev'.id = s /\ ev'.cnt # CANCELLED) =>
               s \in waiting' /\ subscriptions' = subscriptions
          /\ s \notin waiting' =>
               /\ ev' = Event("status", streams[s].name, s, "resolved",
                              CANCELLED)
               /\ subscriptions'[streams[s].name] = 0]_vars

C8_Witness ==
  /\ ev.op = "status"
  /\ ev.res = "resolved"
  /\ ev.cnt = CANCELLED
  /\ streams[ev.id].cancelled
  /\ ev.id \notin waiting
  /\ subscriptions[ev.arg] = 0

\* C9: a stream that ended naturally is not waited for by a disconnect: its
\* cancellation counts as resolved.
C9_EndedStreamNotAwaited ==
  \A s \in waiting : ~streams[s].ended

\* C10: _cancelSubscription for a key with no stream resolves.
C10_MissingKeyResolves ==
  (ev.op = "cancelOne" /\ ev.id = 0) => ev.res = "resolved"

\* C11: when a registered stream signals its natural end, the name it was
\* registered under is no longer in the registry and exactly one
\* subscription-ended event is emitted for that name.
C11_EndRemovesNameOnce ==
  ev.op = "end" => (subscriptions[ev.arg] = 0 /\ ev.cnt = 1)

\* The clients that are created and not closed.
openClients == {h \in 1..MaxClients : handles[h] \in {"open", "ready"}}

\* C12: at most one client is open at any time, and none is open when the
\* state is ready with no transition in flight; so neither a retry after a
\* failed connect nor a connect after a disconnect leaves an earlier client
\* open.
C12_ClientOwnership ==
  /\ Cardinality(openClients) <= 1
  /\ (state = "ready" /\ ~pending) => openClients = {}
  /\ openClients # {} => openClients = {service}

C12_Witness ==
  /\ sessions = 2
  /\ ev = Event("settled", "connect", 0, "ok", 0)
  /\ state = "connected"
  /\ openClients = {service}

\* C13: a disconnect begun in state connected with an empty registry calls
\* cancel() on no stream and waits for none; nothing but calls of the caller
\* that change nothing can come before its completion, which closes the
\* client and sets the state to ready.
C13_EmptyRegistryDisconnect ==
  [][/\ (/\ ev' = Event("request", "disconnect", 0, "begun", 0)
         /\ Registered = {}) =>
          /\ waiting' = {}
          /\ snap' = {}
          /\ streams' = streams
          /\ subscriptions' = subscriptions
     /\ (pc = "unsub" /\ snap = {}) =>
          \/ ev'.op \in {"request", "is", "can", "cancelOne"} /\ UNCHANGED prog
          \/ /\ ev' = Event("settled", "disconnect", 0, "ok", 0)
             /\ state' = "ready"
             /\ ~pending'
             /\ handles'[service] = "closed"
             /\ UNCHANGED <<subVars, waiting>>]_vars

C13_Witness ==
  /\ ev = Event("settled", "disconnect", 0, "ok", 0)
  /\ state = "ready"
  /\ handles[service] = "closed"
  /\ nstreams > 0
  /\ \A s \in 1..nstreams : ~streams[s].cancelReq

\* C14: for every lndConfig id and type and either useMacaroon flag, the
\* derived useMacaroon is false for id tmp and waitForMacaroon is true exactly
\* for type local; a connect with id tmp neither waits for the macaroon file
\* nor creates macaroon credentials, and one that does either has settings
\* that ask for it.
C14_ConnectionSettings ==
  /\ lndConfig.id = "tmp" => ~getConnectionSettings.useMacaroon
  /\ getConnectionSettings.waitForMacaroon <=> lndConfig.type = "local"
  /\ lndConfig.id = "tmp" => pc \notin {"waitFile", "macaroon"}
  /\ pc = "waitFile" => (useMacaroon /\ lndConfig.type = "local")
  /\ pc = "macaroon" => useMacaroon

C14_Witness ==
  /\ lndConfig = [id |-> "tmp", type |-> "local"]
  /\ useMacaroon
  /\ ev = Event("settled", "connect", 0, "ok", 0)
  /\ handles[service] = "ready"

\* C15: is() and can() change nothing, in every state, a transition in
\* flight included.
C15_QueriesDoNotMutate ==
  [][ev'.op \in {"is", "can"} => UNCHANGED prog]_vars

C15_Witness ==
  /\ ev.op = "is"
  /\ pending
  /\ pc = "unsub"
  /\ waiting # {}

\* C16: whenever a delayed task calls subscribe(), the state is connected and
\* the current client has passed waitForReady and is not closed.
C16_HookOnLiveClient ==
  [][(ev'.op = "timer" /\ ev'.res = "hook") =>
       /\ state = "connected"
       /\ service # 0
       /\ handles[service] = "ready"
       /\ handles'[service] = "ready"]_vars

C16_Witness ==
  /\ ev.op = "timer"
  /\ ev.res = "hook"
  /\ ev.id < sessions
  /\ ev.cnt > 0
  /\ handles[service] = "ready"

\* C17: an end or status event of a stream never removes the registry entry
\* of a different stream registered under the same name.
C17_EventRemovesOwnEntryOnly ==
  [][\A n \in Registered :
       (ev'.op \in {"end", "status"} /\ subscriptions'[n] = 0) =>
         ev'.id = subscriptions[n]]_vars

\* C18: when every stream whose cancel() was called reports CANCELLED, a
\* disconnect begun in state connected completes with the state ready.
C18_DisconnectCompletes ==
  (pending /\ pc = "unsub") ~>
    (ev.op = "settled" /\ ev.arg = "disconnect" /\ state = "ready" /\ ~pending)

C18_Witness ==
  /\ ev.op = "settled"
  /\ ev.arg = "disconnect"
  /\ ev.cnt = Cardinality(Names)
  /\ state = "ready"
  /\ ~pending
  /\ \A n \in Names : \E s \in 1..nstreams :
       streams[s].name = n /\ streams[s].cancelled

\* C19 as stated: between a connect completing and the next disconnect
\* completing subscribe() is called at most once.
C19_HookOncePerSession ==
  hooksNow <= 1

\* C19: each delayed task calls subscribe() at most once, so between a connect
\* completing and the next disconnect completing it is called at most as
\* many times as connects have completed, and at most once in the first
\* session.
C19_HookOncePerConnect ==
  /\ hooksNow <= sessions
  /\ hooksNow <= Cardinality(hookBy)
  /\ Len(timers) + Cardinality(hookBy) <= sessions

C19_Witness ==
  /\ sessions = 2
  /\ hooksNow = 2
  /\ state = "connected"
  /\ ~pending

\* C20: subscribe() is not called while a disconnect is in flight, and the
\* registry holds no stream that unsubscribe() did not cancel.
C20_NoHookDuringDisconnect ==
  /\ (ev.op = "timer" /\ ev.res = "hook") => pc # "unsub"
  /\ pc = "unsub" => \A n \in Registered : subscriptions[n] \in snap

====
